---- MODULE Spec2Model ----
(***************************************************************************)
(* A model of src/Polygon.js: the Polygon entity (constructor, update,     *)
(* points, borderBox) and the static collision queries (isColliding,       *)
(* pointIsInPolygon).                                                      *)
(*                                                                         *)
(* Numbers.  Coordinates, radii and shape points are integers; a rotation  *)
(* is a whole number k of quarter turns (the angle k*pi/2), for which cos  *)
(* and sin are taken as the exact values in {-1, 0, 1}.  Sums and products *)
(* of such values are exact in the code's double arithmetic too.  The two  *)
(* divisions of the code are kept exact: a quotient is carried as its      *)
(* numerator and denominator and compared by cross-multiplication, and a   *)
(* division by zero gives Infinity, -Infinity or NaN as in JavaScript.     *)
(* A field that was never assigned (undefined) is the empty tuple <<>>, a  *)
(* number v is the tuple <<v>>, so that === between them is plain equality.*)
(***************************************************************************)
EXTENDS Integers, Sequences, FiniteSets, TLC

VARIABLES this, call, sat, ray

vars == <<this, call, sat, ray>>

\* ---------------------------------------------------------------- bounds

\* centres x, y of an entity range over 0..MaxCoord
MaxCoord == 1
\* radii range over -MaxRadius..MaxRadius
MaxRadius == 2
\* free point lists take their coordinates in 0..MaxGrid
MaxGrid == 2
\* in a collision query the second polygon's centre lies 0..MaxOffset
\* to the right of and above the first one's
MaxOffset == 5

\* ------------------------------------------------------------ arithmetic

Abs(n) == IF n < 0 THEN -n ELSE n

Sign(n) == IF n < 0 THEN -1 ELSE IF n > 0 THEN 1 ELSE 0

\* Math.cos and Math.sin at k quarter turns
Cos(k) == CASE k % 4 = 0 -> 1 [] k % 4 = 1 -> 0 [] k % 4 = 2 -> -1 [] OTHER -> 0

Sin(k) == CASE k % 4 = 0 -> 0 [] k % 4 = 1 -> 1 [] k % 4 = 2 -> 0 [] OTHER -> -1

Undefined == <<>>

Num(v) == <<v>>

Val(f) == f[1]

\* a / b of two numbers: a finite quotient keeps numerator and denominator
\* (denominator made positive), a zero divisor gives NaN or an infinity
Div(a, b) ==
    IF b = 0
    THEN [kind |-> IF a = 0 THEN "NaN" ELSE IF a > 0 THEN "Infinity" ELSE "-Infinity",
          num |-> 0, den |-> 1]
    ELSE [kind |-> "finite", num |-> a * Sign(b), den |-> Abs(b)]

\* ------------------------------------------------------------ the entity

Pt(px, py) == [x |-> px, y |-> py]

\* new Float64Array(n): n zeros
Float64Array(n) == [i \in 1..n |-> 0]

\* update(x, y, radius, rotation) without its early return
UpdateAlways(obj, x, y, radius, rotation) ==
    LET cos == Cos(rotation)
        sin == Sin(rotation)
    IN  [obj |-> [obj EXCEPT
                    !.x = Num(x), !.y = Num(y),
                    !.radius = Num(radius), !.rotation = Num(rotation),
                    !.xPoints = [i \in 1..obj.numPoints |->
                        x + (obj.shape[i].x * cos - obj.shape[i].y * sin) * radius],
                    !.yPoints = [i \in 1..obj.numPoints |->
                        y + (obj.shape[i].y * cos + obj.shape[i].x * sin) * radius]],
         ret |-> "this",
         writes |-> obj.numPoints]

\* update(x, y, radius, rotation) rotating the other way round
UpdateMirrored(obj, x, y, radius, rotation) ==
    IF /\ Num(x) = obj.x
       /\ Num(y) = obj.y
       /\ Num(radius) = obj.radius
       /\ Num(rotation) = obj.rotation
    THEN [obj |-> obj, ret |-> "undefined", writes |-> 0]
    ELSE LET cos == Cos(rotation)
             sin == Sin(rotation)
         IN  [obj |-> [obj EXCEPT
                    !.x = Num(x), !.y = Num(y),
                    !.radius = Num(radius), !.rotation = Num(rotation),
                    !.xPoints = [i \in 1..obj.numPoints |->
                        x + (obj.shape[i].x * cos + obj.shape[i].y * sin) * radius],
                    !.yPoints = [i \in 1..obj.numPoints |->
                        y + (obj.shape[i].y * cos - obj.shape[i].x * sin) * radius]],
              ret |-> "this",
              writes |-> obj.numPoints]

\* update(x, y, radius, rotation): the object after the call, the value
\* returned, and the number of buffer entries written
Update(obj, x, y, radius, rotation) ==
    IF /\ Num(x) = obj.x
       /\ Num(y) = obj.y
       /\ Num(radius) = obj.radius
       /\ Num(rotation) = obj.rotation
    THEN [obj |-> obj, ret |-> "undefined", writes |-> 0]
    ELSE LET cos == Cos(rotation)
             sin == Sin(rotation)
         IN  [obj |-> [obj EXCEPT
                    !.x = Num(x), !.y = Num(y),
                    !.radius = Num(radius), !.rotation = Num(rotation),
                    !.xPoints = [i \in 1..obj.numPoints |->
                        x + (obj.shape[i].x * cos - obj.shape[i].y * sin) * radius],
                    !.yPoints = [i \in 1..obj.numPoints |->
                        y + (obj.shape[i].y * cos + obj.shape[i].x * sin) * radius]],
              ret |-> "this",
              writes |-> obj.numPoints]

\* new Polygon(points, x, y, radius, rotation): the fields set before the
\* call of update (x, y, radius and rotation are still undefined), then update
Construct(shapePoints, x, y, radius, rotation) ==
    Update([shape |-> shapePoints,
            numPoints |-> Len(shapePoints),
            xPoints |-> Float64Array(Len(shapePoints)),
            yPoints |-> Float64Array(Len(shapePoints)),
            x |-> Undefined, y |-> Undefined,
            radius |-> Undefined, rotation |-> Undefined],
           x, y, radius, rotation)

\* get points()
points(obj) == [i \in 1..obj.numPoints |-> Pt(obj.xPoints[i], obj.yPoints[i])]

\* the largest of a non-empty set of numbers
MaxOf(S) == CHOOSE m \in S : \A n \in S : n <= m

\* borderBox() without the division by the radius
BorderBoxRaw(obj) ==
    LET width == MaxOf({0} \cup {Abs(obj.xPoints[i] - Val(obj.x)) : i \in 1..obj.numPoints})
        height == MaxOf({0} \cup {Abs(obj.yPoints[i] - Val(obj.y)) : i \in 1..obj.numPoints})
    IN  [width |-> Div(width, 1), height |-> Div(height, 1)]

\* borderBox(): width and height start at 0 and grow to the largest
\* |xPoints[i] - x| and |yPoints[i] - y|; each is then divided by the radius
borderBox(obj) ==
    LET width == MaxOf({0} \cup {Abs(obj.xPoints[i] - Val(obj.x)) : i \in 1..obj.numPoints})
        height == MaxOf({0} \cup {Abs(obj.yPoints[i] - Val(obj.y)) : i \in 1..obj.numPoints})
    IN  [width |-> Div(width, Val(obj.radius)),
         height |-> Div(height, Val(obj.radius))]

\* ---------------------------------------------------- pointIsInPolygon

\* x < q + xi for a quotient q
LessThanSum(x, q, xi) ==
    CASE q.kind = "NaN" -> FALSE
      [] q.kind = "Infinity" -> TRUE
      [] q.kind = "-Infinity" -> FALSE
      [] OTHER -> (x - xi) * q.den < q.num

\* the loop body's condition with >= for the first comparison
EdgeTestInclusive(x, y, pi, pj) ==
    IF (pi.y >= y) # (pj.y > y)
    THEN [divided |-> TRUE,
          divisor |-> pj.y - pi.y,
          crosses |-> LessThanSum(x, Div((pj.x - pi.x) * (y - pi.y), pj.y - pi.y), pi.x)]
    ELSE [divided |-> FALSE, divisor |-> 0, crosses |-> FALSE]

\* the loop body's condition with the intersection compared the other way
EdgeTestLeft(x, y, pi, pj) ==
    IF (pi.y > y) # (pj.y > y)
    THEN [divided |-> TRUE,
          divisor |-> pj.y - pi.y,
          crosses |-> ~LessThanSum(x, Div((pj.x - pi.x) * (y - pi.y), pj.y - pi.y), pi.x)]
    ELSE [divided |-> FALSE, divisor |-> 0, crosses |-> FALSE]

\* the loop body's condition,
\*   yi > y !== yj > y && x < ((xj - xi) * (y - yi)) / (yj - yi) + xi:
\* && evaluates its right side, and so the division, only when its left
\* side is true.  divided tells whether the division was evaluated, divisor
\* is yj - yi then, crosses is the value of the whole condition
EdgeTest(x, y, pi, pj) ==
    IF (pi.y > y) # (pj.y > y)
    THEN [divided |-> TRUE,
          divisor |-> pj.y - pi.y,
          crosses |-> LessThanSum(x, Div((pj.x - pi.x) * (y - pi.y), pj.y - pi.y), pi.x)]
    ELSE [divided |-> FALSE, divisor |-> 0, crosses |-> FALSE]

\* the index j that goes with i in the loop (1-based): the last point for
\* the first i, then the point before i
Prev(i, n) == IF i = 1 THEN n ELSE i - 1

\* pointIsInPolygon(x, y, polygon): inside is toggled once per edge whose
\* condition holds
pointIsInPolygon(x, y, polygon) ==
    LET pts == polygon.points
        n == Len(pts)
        hits == {i \in 1..n : EdgeTest(x, y, pts[i], pts[Prev(i, n)]).crosses}
    IN  Cardinality(hits) % 2 = 1

\* ----------------------------------------------------------- isColliding

MinOf(S) == CHOOSE m \in S : \A n \in S : m <= n

\* points1[(i + 1) % points1.length], 1-based
Succ(i, n) == (i % n) + 1

\* the normal of edge i of pts, before it is normalized
Normal(pts, i) ==
    LET point1 == pts[i]
        point2 == pts[Succ(i, Len(pts))]
        edge == Pt(point2.x - point1.x, point2.y - point1.y)
    IN  Pt(-edge.y, edge.x)

\* min and max of the projections of pts on the normalized normal.  The
\* normalized normal is normal / length with length = sqrt(nx^2 + ny^2);
\* every projection on one axis is divided by the same length > 0, so the
\* projections are kept in units of 1 / length.  With length = 0 the
\* normal is NaN, every projection is NaN, no comparison succeeds and min
\* and max stay at Infinity and -Infinity (unset), as for an empty pts
Interval(normal, pts) ==
    LET lengthSq == normal.x * normal.x + normal.y * normal.y
        proj == {normal.x * pts[j].x + normal.y * pts[j].y : j \in 1..Len(pts)}
    IN  IF lengthSq = 0 \/ proj = {}
        THEN [unset |-> TRUE, min |-> 0, max |-> 0]
        ELSE [unset |-> FALSE, min |-> MinOf(proj), max |-> MaxOf(proj)]

\* max1 < min2 || max2 < min1 on the normal of edge i of points1; an unset
\* interval has max = -Infinity and min = Infinity
Separated(points1, points2, i) ==
    LET normal == Normal(points1, i)
        a == Interval(normal, points1)
        b == Interval(normal, points2)
    IN  IF a.unset \/ b.unset
        THEN TRUE
        ELSE a.max < b.min \/ b.max < a.min

\* the two loops after the axis loop: some point of polygon1 is in
\* polygon2, or some point of polygon2 is in polygon1
Contained(polygon1, polygon2) ==
    LET points1 == polygon1.points
        points2 == polygon2.points
    IN  \/ \E i \in 1..Len(points1) :
            pointIsInPolygon(points1[i].x, points1[i].y, polygon2)
        \/ \E i \in 1..Len(points2) :
            pointIsInPolygon(points2[i].x, points2[i].y, polygon1)

\* isColliding as the file's first version has it: true when no edge
\* normal of polygon1 separates
isCollidingAxesOnly(polygon1, polygon2) ==
    ~ \E i \in 1..Len(polygon1.points) : Separated(polygon1.points, polygon2.points, i)

\* isColliding without its last loop: only polygon1's points are looked up
isCollidingOneLoop(polygon1, polygon2) ==
    /\ ~ \E i \in 1..Len(polygon1.points) : Separated(polygon1.points, polygon2.points, i)
    /\ \E i \in 1..Len(polygon1.points) :
            pointIsInPolygon(polygon1.points[i].x, polygon1.points[i].y, polygon2)

\* isColliding with the axis loop's return value inverted
isCollidingInverted(polygon1, polygon2) ==
    IF \E i \in 1..Len(polygon1.points) : Separated(polygon1.points, polygon2.points, i)
    THEN TRUE
    ELSE Contained(polygon1, polygon2)

\* isColliding(polygon1, polygon2): false at the first edge of polygon1
\* whose normal separates; then true at the first contained point; then
\* false
isColliding(polygon1, polygon2) ==
    IF \E i \in 1..Len(polygon1.points) : Separated(polygon1.points, polygon2.points, i)
    THEN FALSE
    ELSE IF Contained(polygon1, polygon2)
         THEN TRUE
         ELSE FALSE

\* ------------------------------------------------------------ the shapes

\* the square of the spec's examples, corners (+-1, +-1), going round
SquareCorners == <<Pt(1, 1), Pt(-1, 1), Pt(-1, -1), Pt(1, -1)>>

Perms4 == {p \in [1..4 -> 1..4] : \A a, b \in 1..4 : a # b => p[a] # p[b]}

\* the square listed in each of the 24 orders of its corners
SquareShapes == {[i \in 1..4 |-> SquareCorners[p[i]]] : p \in Perms4}

Triangle == <<Pt(0, 2), Pt(-1, -1), Pt(2, -1)>>

Diamond == <<Pt(2, 0), Pt(0, 2), Pt(-2, 0), Pt(0, -2)>>

Bar == <<Pt(3, 1), Pt(-3, 1), Pt(-3, -1), Pt(3, -1)>>

Kite == <<Pt(3, 0), Pt(0, 1), Pt(-1, 0), Pt(0, -1)>>

\* the eight orders that go round the square: each corner differs from
\* the next (and the last from the first) in one coordinate only
RoundShapes ==
    {s \in SquareShapes :
        \A i \in 1..4 : (s[i].x = s[Prev(i, 4)].x) # (s[i].y = s[Prev(i, 4)].y)}

Rotations == 0..3

Coords == 0..MaxCoord

Radii == (-MaxRadius)..MaxRadius

\* ------------------------------------------------- entity: the operations

EntityShapes == {SquareCorners, Triangle, Bar}

NoSat == [pc |-> "off"]

NoRay == [pc |-> "off"]

\* the state after new Polygon(shape, x, y, radius, rotation)
InitEntity ==
    /\ \E shape \in EntityShapes, x \in Coords, y \in Coords,
          radius \in Radii, rotation \in Rotations :
        LET r == Construct(shape, x, y, radius, rotation)
        IN  /\ this = r.obj
            /\ call = [op |-> "new", same |-> FALSE, writes |-> r.writes,
                       ret |-> [kind |-> r.ret]]
    /\ sat = NoSat
    /\ ray = NoRay

\* a call this.update(x, y, radius, rotation); same records whether the
\* arguments were the stored pose when the call was made
UpdateCall ==
    /\ \E x \in Coords, y \in Coords, radius \in Radii, rotation \in Rotations :
        LET r == Update(this, x, y, radius, rotation)
        IN  /\ this' = r.obj
            /\ call' = [op |-> "update",
                        same |-> /\ Val(this.x) = x
                                 /\ Val(this.y) = y
                                 /\ Val(this.radius) = radius
                                 /\ Val(this.rotation) = rotation,
                        writes |-> r.writes,
                        ret |-> [kind |-> r.ret]]
    /\ UNCHANGED <<sat, ray>>

\* a call this.borderBox()
BorderBoxCall ==
    /\ this' = this
    /\ call' = [op |-> "borderBox", same |-> FALSE, writes |-> 0,
                ret |-> [kind |-> "box", box |-> borderBox(this)]]
    /\ UNCHANGED <<sat, ray>>

NextEntity == UpdateCall \/ BorderBoxCall

Spec == InitEntity /\ [][NextEntity]_vars

\* ---------------------------------------------------- entity: the claims

\* the stored pose, as numbers
PoseX == Val(this.x)

PoseY == Val(this.y)

PoseRadius == Val(this.radius)

PoseRotation == Val(this.rotation)

IsSquareShape == this.shape \in SquareShapes

\* a quotient equal to the number n
QuotIs(q, n) == q.kind = "finite" /\ q.num = n * q.den

IsOne(q) == QuotIs(q, 1)

\* C5: an update call whose four arguments equal the stored pose writes no
\* buffer entry and leaves the pose and both buffers as they were
C5_NoopUpdate ==
    [][(call'.op = "update" /\ call'.same)
        => (this' = this /\ call'.writes = 0 /\ call'.ret.kind = "undefined")]_vars

\* an update repeating the stored pose (a rotated, scaled one) has returned
C5_Witness ==
    /\ call.op = "update"
    /\ call.same
    /\ call.writes = 0
    /\ PoseRotation = 1
    /\ PoseRadius = 2

\* C7 as stated: the square at rotation 0 has border box 1 x 1 for every
\* non-zero radius
C7_AnyNonZeroRadius ==
    (/\ call.op = "borderBox"
     /\ IsSquareShape
     /\ PoseRotation = 0
     /\ PoseRadius # 0)
    => (IsOne(call.ret.box.width) /\ IsOne(call.ret.box.height))

\* C7, amended: the square at rotation 0 has border box 1 x 1 for every
\* positive radius, and -1 x -1 for every negative one
C7_PositiveRadius ==
    (/\ call.op = "borderBox"
     /\ IsSquareShape
     /\ PoseRotation = 0
     /\ PoseRadius # 0)
    => IF PoseRadius > 0
       THEN IsOne(call.ret.box.width) /\ IsOne(call.ret.box.height)
       ELSE QuotIs(call.ret.box.width, -1) /\ QuotIs(call.ret.box.height, -1)

\* borderBox() has returned for the square at rotation 0, radius 2, moved
\* away from the origin
C7_Witness ==
    /\ call.op = "borderBox"
    /\ IsSquareShape
    /\ PoseRotation = 0
    /\ PoseRadius = 2
    /\ PoseX = 1
    /\ PoseY = 1
    /\ IsOne(call.ret.box.width)

\* C8: the buffers have one entry per shape point and hold the shape
\* rotated, scaled and moved by the stored pose; the constructor's call of
\* update writes every entry
C8_BuffersAgree ==
    /\ this.numPoints = Len(this.shape)
    /\ Len(this.xPoints) = this.numPoints
    /\ Len(this.yPoints) = this.numPoints
    /\ \A i \in 1..Len(this.shape) :
        /\ this.xPoints[i] = PoseX
              + (this.shape[i].x * Cos(PoseRotation)
                 - this.shape[i].y * Sin(PoseRotation)) * PoseRadius
        /\ this.yPoints[i] = PoseY
              + (this.shape[i].y * Cos(PoseRotation)
                 + this.shape[i].x * Sin(PoseRotation)) * PoseRadius
    /\ call.op = "new" => (call.writes = Len(this.shape) /\ call.ret.kind = "this")

\* an update has changed the pose of the triangle to a rotated, scaled one
C8_Witness ==
    /\ call.op = "update"
    /\ ~call.same
    /\ call.writes = 3
    /\ this.shape = Triangle
    /\ PoseRotation = 1
    /\ PoseRadius = 2
    /\ this.xPoints[1] = PoseX - 4

\* ------------------------------------------- pointIsInPolygon, step by step

Grid == 0..MaxGrid

GridPoints == {Pt(a, b) : a \in Grid, b \in Grid}

\* every list of three grid points, as a polygon-like value
FreeTriangles == {[points |-> <<a, b, c>>] : a \in GridPoints, b \in GridPoints, c \in GridPoints}

\* the squares (cx +- r, cy +- r), r > 0, as the entity computes them, from
\* every start corner and in both directions
Squares ==
    {[points |-> points(Construct(s, cx, cy, r, 0).obj)] :
        s \in RoundShapes, cx \in Coords, cy \in Coords, r \in 1..MaxRadius}

\* query coordinates around the squares
Around == (-(MaxRadius + 1))..(MaxCoord + MaxRadius + 1)

\* the loop started with j = 0: the edge closing the polygon is never tested
RayStartNoWrap(polygon, x, y) ==
    [pc |-> "loop", polygon |-> polygon, x |-> x, y |-> y,
     i |-> 0, j |-> 0, inside |-> FALSE,
     divided |-> FALSE, divisor |-> 0, toggled |-> FALSE]

\* the state at the first test of the loop: i = 0, j = points.length - 1
RayStart(polygon, x, y) ==
    [pc |-> "loop", polygon |-> polygon, x |-> x, y |-> y,
     i |-> 0, j |-> Len(polygon.points) - 1, inside |-> FALSE,
     divided |-> FALSE, divisor |-> 0, toggled |-> FALSE]

InitRay ==
    /\ \/ \E polygon \in Squares, x \in Around, y \in Around :
            ray = RayStart(polygon, x, y)
       \/ \E polygon \in FreeTriangles, x \in Grid, y \in Grid :
            ray = RayStart(polygon, x, y)
    /\ this = <<>>
    /\ call = <<>>
    /\ sat = NoSat

\* one pass of the loop body, then j = i++
RayStep ==
    /\ ray.pc = "loop"
    /\ ray.i < Len(ray.polygon.points)
    /\ LET t == EdgeTest(ray.x, ray.y,
                         ray.polygon.points[ray.i + 1], ray.polygon.points[ray.j + 1])
       IN  ray' = [ray EXCEPT !.inside = IF t.crosses THEN ~@ ELSE @,
                              !.toggled = t.crosses,
                              !.divided = t.divided,
                              !.divisor = t.divisor,
                              !.j = ray.i,
                              !.i = ray.i + 1]
    /\ UNCHANGED <<this, call, sat>>

\* the loop ends and inside is returned
RayReturn ==
    /\ ray.pc = "loop"
    /\ ray.i >= Len(ray.polygon.points)
    /\ ray' = [ray EXCEPT !.pc = "done"]
    /\ UNCHANGED <<this, call, sat>>

NextRay == RayStep \/ RayReturn

SpecRay == InitRay /\ [][NextRay]_vars

\* --------------------------------------- pointIsInPolygon: the claims

\* the edge tested by the last pass of the loop (ray.i passes are done)
LastI == ray.polygon.points[ray.i]

LastJ == ray.polygon.points[Prev(ray.i, Len(ray.polygon.points))]

RayXs == {ray.polygon.points[k].x : k \in 1..Len(ray.polygon.points)}

RayYs == {ray.polygon.points[k].y : k \in 1..Len(ray.polygon.points)}

\* the polygon of the query is one of the squares (cx +- r, cy +- r)
RayOnSquare == ray.polygon \in Squares

StrictlyInsideSquare ==
    /\ \E a \in RayXs : a < ray.x
    /\ \E a \in RayXs : a > ray.x
    /\ \E b \in RayYs : b < ray.y
    /\ \E b \in RayYs : b > ray.y

StrictlyOutsideSquare ==
    \/ \A a \in RayXs : a < ray.x
    \/ \A a \in RayXs : a > ray.x
    \/ \A b \in RayYs : b < ray.y
    \/ \A b \in RayYs : b > ray.y

\* the step-by-step loop returns what the operator pointIsInPolygon gives
StepwiseAgrees ==
    ray.pc = "done" => ray.inside = pointIsInPolygon(ray.x, ray.y, ray.polygon)

\* C6: for a square and a point off its boundary, pointIsInPolygon returns
\* true when the point is strictly inside and false when strictly outside
C6_SquareInside ==
    (ray.pc = "done" /\ RayOnSquare)
    => /\ StrictlyInsideSquare => ray.inside
       /\ StrictlyOutsideSquare => ~ray.inside

\* the query has returned true for a point strictly inside a square, off
\* its centre
C6_Witness ==
    /\ ray.pc = "done"
    /\ RayOnSquare
    /\ StrictlyInsideSquare
    /\ ray.inside
    /\ ray.polygon.points[1].x - ray.x # ray.x - ray.polygon.points[3].x

\* C9: the division is evaluated only for an edge whose ends lie on
\* different sides of the query's height, so never with yj = yi, and an
\* edge with yj = yi never toggles inside
C9_NoZeroDivisor ==
    (ray.pc # "off" /\ ray.i >= 1)
    => /\ ray.divided => /\ ray.divisor # 0
                         /\ (LastI.y > ray.y) # (LastJ.y > ray.y)
       /\ LastI.y = LastJ.y => (~ray.divided /\ ~ray.toggled)

\* the loop has passed a horizontal edge lying at the query's height
\* without dividing
C9_Witness ==
    /\ ray.pc = "loop"
    /\ ray.i >= 1
    /\ LastI.y = LastJ.y
    /\ LastI.y = ray.y
    /\ LastI.x # LastJ.x
    /\ ~ray.divided

\* ------------------------------------------------ isColliding: the calls

ConvexShapes == {SquareCorners, Triangle, Diamond, Bar, Kite}

Offsets == 0..MaxOffset

Scales == 1..MaxRadius

\* a Polygon entity as an argument of a query: its points getter
AsPolygon(obj) == [points |-> points(obj)]

SatStart(e1, e2) == [pc |-> "ready", polygon1 |-> e1, polygon2 |-> e2]

\* two entities: either two convex shapes, each scaled and turned, or the
\* square in one of the 24 orders of its corners, twice, unturned
InitSat ==
    /\ \/ \E s1 \in ConvexShapes, s2 \in ConvexShapes,
             r1 \in Scales, r2 \in Scales, k1 \in Rotations, k2 \in Rotations,
             x2 \in Offsets, y2 \in Offsets :
            sat = SatStart(Construct(s1, 0, 0, r1, k1).obj,
                           Construct(s2, x2, y2, r2, k2).obj)
       \/ \E s \in SquareShapes, r1 \in Scales, r2 \in Scales,
             x2 \in Offsets, y2 \in Offsets :
            sat = SatStart(Construct(s, 0, 0, r1, 0).obj,
                           Construct(s, x2, y2, r2, 0).obj)
    /\ this = <<>>
    /\ call = <<>>
    /\ ray = NoRay

\* Polygon.isColliding(polygon1, polygon2)
CollideCall ==
    /\ sat.pc = "ready"
    /\ sat' = [pc |-> "called", polygon1 |-> sat.polygon1, polygon2 |-> sat.polygon2,
               ab |-> isColliding(AsPolygon(sat.polygon1), AsPolygon(sat.polygon2))]
    /\ UNCHANGED <<this, call, ray>>

\* then Polygon.isColliding(polygon2, polygon1)
CollideSwapped ==
    /\ sat.pc = "called"
    /\ sat' = [pc |-> "both", polygon1 |-> sat.polygon1, polygon2 |-> sat.polygon2,
               ab |-> sat.ab,
               ba |-> isColliding(AsPolygon(sat.polygon2), AsPolygon(sat.polygon1))]
    /\ UNCHANGED <<this, call, ray>>

NextSat == CollideCall \/ CollideSwapped

SpecSat == InitSat /\ [][NextSat]_vars

\* --------------------------------------------- isColliding: the claims

Points1 == points(sat.polygon1)

Points2 == points(sat.polygon2)

\* no two consecutive points of pts coincide
NonDegenerate(pts) == \A i \in 1..Len(pts) : pts[i] # pts[Succ(i, Len(pts))]

\* p lies on the segment from a to b
OnSegment(p, a, b) ==
    /\ (b.x - a.x) * (p.y - a.y) = (b.y - a.y) * (p.x - a.x)
    /\ (p.x - a.x) * (p.x - b.x) <= 0
    /\ (p.y - a.y) * (p.y - b.y) <= 0

OnBoundary(p, pts) == \E i \in 1..Len(pts) : OnSegment(p, pts[i], pts[Succ(i, Len(pts))])

NoVertexOnBoundary ==
    /\ \A i \in 1..Len(Points1) : ~OnBoundary(Points1[i], Points2)
    /\ \A i \in 1..Len(Points2) : ~OnBoundary(Points2[i], Points1)

NoAxisOfFirst == ~ \E i \in 1..Len(Points1) : Separated(Points1, Points2, i)

NoAxisOfSecond == ~ \E i \in 1..Len(Points2) : Separated(Points2, Points1, i)

NoContainment == ~Contained(AsPolygon(sat.polygon1), AsPolygon(sat.polygon2))

\* an entity that is an axis-aligned square (cx +- r, cy +- r)
AxisSquare(e) == e.shape \in RoundShapes

SameCentre == sat.polygon1.x = sat.polygon2.x /\ sat.polygon1.y = sat.polygon2.y

XsOf(pts) == {pts[i].x : i \in 1..Len(pts)}

YsOf(pts) == {pts[i].y : i \in 1..Len(pts)}

\* the projections on the x axis or on the y axis are strictly disjoint
DisjointOnAnAxis ==
    \/ MaxOf(XsOf(Points1)) < MinOf(XsOf(Points2))
    \/ MaxOf(XsOf(Points2)) < MinOf(XsOf(Points1))
    \/ MaxOf(YsOf(Points1)) < MinOf(YsOf(Points2))
    \/ MaxOf(YsOf(Points2)) < MinOf(YsOf(Points1))

\* C1: with non-degenerate edges, no separating edge normal of the first
\* polygon and no point of either polygon inside the other, isColliding
\* returns true
C1_NoAxisNoVertexIsTrue ==
    (/\ sat.pc \in {"called", "both"}
     /\ NonDegenerate(Points1)
     /\ NonDegenerate(Points2)
     /\ NoAxisOfFirst
     /\ NoContainment)
    => sat.ab

\* C2: of two axis-aligned squares with one centre and different radii,
\* isColliding returns true in either argument order
C2_ConcentricSquares ==
    (/\ AxisSquare(sat.polygon1)
     /\ AxisSquare(sat.polygon2)
     /\ SameCentre
     /\ sat.polygon1.radius # sat.polygon2.radius)
    => /\ sat.pc \in {"called", "both"} => sat.ab
       /\ sat.pc = "both" => sat.ba

\* both orders have returned true for a square of radius 2 given first and
\* the square of radius 1 inside it given second
C2_Witness ==
    /\ sat.pc = "both"
    /\ AxisSquare(sat.polygon1)
    /\ AxisSquare(sat.polygon2)
    /\ SameCentre
    /\ Val(sat.polygon1.radius) = 2
    /\ Val(sat.polygon2.radius) = 1
    /\ sat.ab
    /\ sat.ba

\* C3: two entities of the same square shape, in whatever order its
\* corners are listed, with the same pose at rotation 0, collide
C3_CoincidentSquares ==
    (/\ sat.pc \in {"called", "both"}
     /\ sat.polygon1.shape \in SquareShapes
     /\ sat.polygon2 = sat.polygon1
     /\ Val(sat.polygon1.rotation) = 0)
    => sat.ab

\* C4: two axis-aligned squares whose projections on the x axis or on the
\* y axis are strictly disjoint do not collide, in either argument order
C4_DisjointSquares ==
    (/\ AxisSquare(sat.polygon1)
     /\ AxisSquare(sat.polygon2)
     /\ DisjointOnAnAxis)
    => /\ sat.pc \in {"called", "both"} => ~sat.ab
       /\ sat.pc = "both" => ~sat.ba

\* both orders have returned false for two squares of different radii, the
\* second one to the right of the first and level with it
C4_Witness ==
    /\ sat.pc = "both"
    /\ AxisSquare(sat.polygon1)
    /\ AxisSquare(sat.polygon2)
    /\ Val(sat.polygon1.radius) = 1
    /\ Val(sat.polygon2.radius) = 2
    /\ Val(sat.polygon2.y) = 0
    /\ DisjointOnAnAxis
    /\ ~sat.ab
    /\ ~sat.ba

\* C10: for two convex polygons, no point of one on the boundary of the
\* other, isColliding gives the same answer in both argument orders
C10_Symmetric ==
    (/\ sat.pc = "both"
     /\ sat.polygon1.shape \in ConvexShapes
     /\ sat.polygon2.shape \in ConvexShapes
     /\ NoVertexOnBoundary)
    => sat.ab = sat.ba

\* both orders have returned false for a pair that no edge normal of the
\* first polygon separates and an edge normal of the second one does
C10_Witness ==
    /\ sat.pc = "both"
    /\ sat.polygon1.shape \in ConvexShapes
    /\ sat.polygon2.shape \in ConvexShapes
    /\ NoVertexOnBoundary
    /\ NoAxisOfFirst
    /\ ~NoAxisOfSecond
    /\ ~sat.ab
    /\ ~sat.ba

====
